---- MODULE Spec2Model ----
(***************************************************************************)
(* A model of the two coordination mechanisms of the repository:           *)
(*   - the lease lock of src/s3-lock/s3-lock.py (S3Lock over an S3Bucket), *)
(*   - the admission gate of src/workflow-concurrency/                     *)
(*     workflow-concurrency.py: wait_for_slot over any in-progress         *)
(*     snapshot, and the scripts of the runs of a workflow (main,          *)
(*     cancel_existing_runs, wait_for_slot) over a registry of runs.       *)
(*                                                                         *)
(* Time is counted in seconds.  The lock reads a lease's timestamp only as *)
(* time.time() - lock["timestamp"], so the lease carries that difference   *)
(* (its age), which Tick advances; the age stops growing one second past   *)
(* DeadlockTimeout, where the code's comparison no longer tells ages       *)
(* apart.  A sleep is a countdown that Tick decrements.                    *)
(***************************************************************************)
EXTENDS Integers, Sequences, FiniteSets, TLC

VARIABLES
    store,      \* content of the lock key: <<>> (no such key) or <<lease>>
    pc,         \* pc[p]: where process p is in acquire / release
    action,     \* action[p]: the call p runs or ran last ("acquire", "release")
    wait,       \* wait[p]: the wait argument of p's acquire
    result,     \* result[p]: what p's last finished call returned
    elapsed,    \* elapsed[p]: seconds since p's lease read, while p is about to put
    sleep,      \* sleep[p]: seconds left of p's time.sleep
    held,       \* held[p]: p's acquire returned True and p has not called release since
    seen,       \* seen[p]: owner p found at its last lease read (None: no lease)
    reads,      \* reads[p]: read-decide cycles of p's current acquire (counted to 2)
    puts,       \* puts[p]: lease writes of p's current acquire (counted to 2)
    touched,    \* touched[p]: another process wrote or deleted the key since p's read
    aged,       \* a lease has been older than DeadlockTimeout
    slowWrite,  \* a lease was written SettleWindow or more after the read deciding it
    lastDelete, \* <<>> or <<[by, owner]>>: the last delete_key and the owner it removed
    outcome,    \* outcome[p]: how p's last store call of the current acquire or
                \*   release ended: "none", "ok", "NoSuchKey" or "error"
    gate,       \* where wait_for_slot is: "off", "poll", "sleep", "admitted"
    run_number, \* current_run["run_number"]
    max_concurrency,
    in_progress,\* the sorted run numbers of wait_for_slot's last poll
    present,    \* whether that poll found the current run's number
    slept,      \* the length of wait_for_slot's last time.sleep, in tenths of a second
    polled,     \* the passes of wait_for_slot's loop made so far, each against a
                \*   snapshot of its own: <<[run_number, in_progress, gate, slept]>>
    faults,     \* whether calls to the store and to the registry may fail
    status,     \* status[r]: "none" (not submitted), "queued", "in_progress",
                \*   "completed" or "cancelled"
    head_branch,\* head_branch[r]: the branch run r was submitted for
    rpc,        \* rpc[r]: where the script of run r is: "off", "main", "list",
                \*   "cancel", "poll", "sleep", "admitted" (it exited normally),
                \*   "failed" (it raised), "killed" (stopped with its run)
    to_cancel,  \* to_cancel[r]: what cancel_existing_runs of r has still to iterate
    listing,    \* listing[r]: the runs of the listing of r's cancel_existing_runs
    posted,     \* posted[r]: the runs r has requested the cancellation of
    response,   \* response[r]: status code of the last response r got (0: none)
    cancel,     \* cancel[r]: args.cancel of the script of run r
    event,      \* event[r]: the event run r was triggered by
    current_run,\* current_run[r]: the event and status main of r read for its run
    approve,    \* where workflow-approve's main is: "off", "main", "poll", "sleep",
                \*   "decide", "update", "approved" (it returned), "denied"
                \*   (SystemExit(1)), "skipped" (no approval required), "failed"
                \*   (raise_for_status raised), "error" (is_approved raised)
    approval_required, \* args.approval_required
    approvers,  \* args.approvers
    on_comment, \* the reactions on the PR comment, oldest first
    reactions,  \* what wait_for_reactions returned
    decision    \* what is_approved returned: <<>> or <<[approved, by]>>

lockVars == <<store, pc, action, wait, result, elapsed, sleep, held, seen,
              reads, puts, touched, aged, slowWrite, lastDelete, outcome>>

gateVars == <<gate, run_number, max_concurrency, in_progress, present, slept,
              polled>>

approveVars == <<approve, approval_required, approvers, on_comment, reactions,
                 decision>>

regVars == <<status, head_branch, rpc, to_cancel, listing, posted, response,
             cancel, event, current_run, approveVars>>

vars == <<lockVars, gateVars, faults, regVars>>

----------------------------------------------------------------------------
(* Parameters *)

\* the process ids (the process_id argument of main)
Procs == {"A", "B"}

\* acquire's deadlock_timeout and poll_interval arguments, in seconds
DeadlockTimeout == 3
PollInterval == 2
\* time.sleep(2) between the lease write and the re-read
SettleWindow == 2

None == "none"

\* the runs of the workflow, named by their run_number, and their branches
Runs == {1, 2, 3}
Branches == {"A", "B"}

----------------------------------------------------------------------------
(* S3Bucket *)

\* how a call to the store may end, as far as the store does not decide it
StoreOutcomes == IF faults THEN {"ok", "error"} ELSE {"ok"}

\* how get_object ends: with the body, with NoSuchKey, or with another error
get_object(bucket, o) ==
    IF o = "error" THEN "error"
    ELSE IF bucket = <<>> THEN "NoSuchKey"
    ELSE "ok"

\* a fetch_key that catches every exception
fetch_key_raises_never(got) == FALSE

\* fetch_key catches NoSuchKey and nothing else
fetch_key_raises(got) == got \notin {"ok", "NoSuchKey"}

\* what fetch_key returns when it returns: the body, or None
fetch_key_returns(bucket, got) == IF got = "ok" THEN bucket ELSE <<>>

fetch_key(bucket) == bucket

put_key(bucket, content) == <<content>>

\* a delete that leaves the key where it is
delete_key_keeps(bucket) == bucket

delete_key(bucket) == <<>>

(* S3Lock *)

\* can_acquire_lock with the timestamp comparison the wrong way round
can_acquire_lock_fresh(content, process_id) ==
    IF content = <<>>
    THEN [can |-> TRUE, holder |-> None]
    ELSE LET lock == content[1] IN
         IF lock.process_id = process_id
         THEN [can |-> TRUE, holder |-> None]
         ELSE IF lock.age < DeadlockTimeout
         THEN [can |-> TRUE, holder |-> None]
         ELSE [can |-> FALSE, holder |-> lock.process_id]

\* can_acquire_lock without the branch for a lease of one's own
can_acquire_lock_no_own(content, process_id) ==
    IF content = <<>>
    THEN [can |-> TRUE, holder |-> None]
    ELSE LET lock == content[1] IN
         IF lock.age > DeadlockTimeout
         THEN [can |-> TRUE, holder |-> None]
         ELSE [can |-> FALSE, holder |-> lock.process_id]

\* can_acquire_lock taking a lease over at the timeout, not past it
can_acquire_lock_at_timeout(content, process_id) ==
    IF content = <<>>
    THEN [can |-> TRUE, holder |-> None]
    ELSE LET lock == content[1] IN
         IF lock.process_id = process_id
         THEN [can |-> TRUE, holder |-> None]
         ELSE IF lock.age >= DeadlockTimeout
         THEN [can |-> TRUE, holder |-> None]
         ELSE [can |-> FALSE, holder |-> lock.process_id]

\* can_acquire_lock that finds every lease acquirable
can_acquire_lock_always(content, process_id) == [can |-> TRUE, holder |-> None]

\* can_acquire_lock without the deadlock timeout
can_acquire_lock_no_timeout(content, process_id) ==
    IF content = <<>>
    THEN [can |-> TRUE, holder |-> None]
    ELSE LET lock == content[1] IN
         IF lock.process_id = process_id
         THEN [can |-> TRUE, holder |-> None]
         ELSE [can |-> FALSE, holder |-> lock.process_id]

\* returns (can_acquire, current_holder)
can_acquire_lock(content, process_id) ==
    IF content = <<>>
    THEN [can |-> TRUE, holder |-> None]
    ELSE LET lock == content[1] IN
         IF lock.process_id = process_id
         THEN [can |-> TRUE, holder |-> None]
         ELSE IF lock.age > DeadlockTimeout
         THEN [can |-> TRUE, holder |-> None]
         ELSE [can |-> FALSE, holder |-> lock.process_id]

\* whether _can_acquire_lock raises: json.loads or lock["process_id"] fails
\* (the content has no owner to read), or the lease is another process's and
\* lock["timestamp"] fails (the lease has no age to read)
can_acquire_lock_raises(content, process_id) ==
    IF content = <<>>
    THEN FALSE
    ELSE LET lock == content[1] IN
         IF lock.process_id = None
         THEN TRUE
         ELSE IF lock.process_id = process_id
         THEN FALSE
         ELSE lock.age < 0

\* whether _check_lock_acquired raises: json.loads or lock["process_id"] fails
check_lock_acquired_raises(content, process_id) ==
    IF content # <<>>
    THEN content[1].process_id = None
    ELSE FALSE

lock_content(process_id) == [process_id |-> process_id, age |-> 0]

\* check_lock_acquired that takes a missing lease for a lease of one's own
check_lock_acquired_or_absent(content, process_id) ==
    IF content # <<>>
    THEN content[1].process_id = process_id
    ELSE TRUE

\* check_lock_acquired that looks for a lease, not for its owner
check_lock_acquired_any(content, process_id) == content # <<>>

check_lock_acquired(content, process_id) ==
    IF content # <<>>
    THEN content[1].process_id = process_id
    ELSE FALSE

Owner(content) == IF content = <<>> THEN None ELSE content[1].process_id

Inc2(n) == IF n < 2 THEN n + 1 ELSE 2

\* every process but p has had the key changed under it
TouchOthers(p) == [q \in Procs |-> IF q = p THEN touched[q] ELSE TRUE]

----------------------------------------------------------------------------
(* The calls of main: acquire(wait, ...) or release() under a process id *)

StartAcquire(p) ==
    /\ pc[p] = "idle"
    /\ \E w \in BOOLEAN : wait' = [wait EXCEPT ![p] = w]
    /\ pc' = [pc EXCEPT ![p] = "read"]
    /\ action' = [action EXCEPT ![p] = "acquire"]
    /\ result' = [result EXCEPT ![p] = "none"]
    /\ reads' = [reads EXCEPT ![p] = 0]
    /\ puts' = [puts EXCEPT ![p] = 0]
    /\ seen' = [seen EXCEPT ![p] = None]
    /\ touched' = [touched EXCEPT ![p] = FALSE]
    /\ outcome' = [outcome EXCEPT ![p] = "none"]
    /\ UNCHANGED <<store, elapsed, sleep, held, aged, slowWrite, lastDelete>>
    /\ UNCHANGED <<gateVars, faults, regVars>>

\* an exception leaves acquire or release and ends the process
Raise(p) ==
    /\ pc' = [pc EXCEPT ![p] = "idle"]
    /\ result' = [result EXCEPT ![p] = "raised"]

\* acquire retrying whatever wait is
AfterFailure_always_polls(p) ==
    /\ pc' = [pc EXCEPT ![p] = "poll"]
    /\ sleep' = [sleep EXCEPT ![p] = PollInterval]
    /\ result' = result

\* acquire giving up whatever wait is
AfterFailure_never_polls(p) ==
    /\ pc' = [pc EXCEPT ![p] = "idle"]
    /\ sleep' = sleep
    /\ result' = [result EXCEPT ![p] = "false"]

\* what acquire does once an attempt has failed: sleep and retry, or return False
AfterFailure(p) ==
    IF wait[p]
    THEN /\ pc' = [pc EXCEPT ![p] = "poll"]
         /\ sleep' = [sleep EXCEPT ![p] = PollInterval]
         /\ result' = result
    ELSE /\ pc' = [pc EXCEPT ![p] = "idle"]
         /\ sleep' = sleep
         /\ result' = [result EXCEPT ![p] = "false"]

\* acquire: self._can_acquire_lock(deadlock_timeout) and the branch on it
CanAcquireLock(p) ==
    /\ pc[p] = "read"
    /\ \E o \in StoreOutcomes :
       \E got \in {get_object(fetch_key(store), o)} :
       \E content \in {fetch_key_returns(fetch_key(store), got)} :
         /\ outcome' = [outcome EXCEPT ![p] = got]
         /\ reads' = [reads EXCEPT ![p] = Inc2(reads[p])]
         /\ touched' = [touched EXCEPT ![p] = FALSE]
         /\ IF fetch_key_raises(got) \/ can_acquire_lock_raises(content, p)
            THEN /\ Raise(p)
                 /\ UNCHANGED <<seen, elapsed, sleep>>
            ELSE /\ seen' = [seen EXCEPT ![p] = Owner(content)]
                 /\ IF can_acquire_lock(content, p).can
                    THEN /\ pc' = [pc EXCEPT ![p] = "put"]
                         /\ elapsed' = [elapsed EXCEPT ![p] = 0]
                         /\ UNCHANGED <<sleep, result>>
                    ELSE /\ AfterFailure(p)
                         /\ UNCHANGED elapsed
    /\ UNCHANGED <<store, action, wait, held, puts, aged, slowWrite, lastDelete>>
    /\ UNCHANGED <<gateVars, faults, regVars>>

\* acquire: self._put_lock_content(), then time.sleep(2)
PutLockContent(p) ==
    /\ pc[p] = "put"
    /\ \E o \in StoreOutcomes :
         /\ outcome' = [outcome EXCEPT ![p] = o]
         /\ elapsed' = [elapsed EXCEPT ![p] = 0]
         /\ IF o = "error"
            THEN /\ Raise(p)
                 /\ UNCHANGED <<store, puts, slowWrite, touched, sleep>>
            ELSE /\ store' = put_key(store, lock_content(p))
                 /\ puts' = [puts EXCEPT ![p] = Inc2(puts[p])]
                 /\ slowWrite' = (slowWrite \/ elapsed[p] >= SettleWindow)
                 /\ touched' = TouchOthers(p)
                 /\ pc' = [pc EXCEPT ![p] = "settle"]
                 /\ sleep' = [sleep EXCEPT ![p] = SettleWindow]
                 /\ UNCHANGED result
    /\ UNCHANGED <<action, wait, held, seen, reads, aged, lastDelete>>
    /\ UNCHANGED <<gateVars, faults, regVars>>

\* acquire: after the sleep, self._check_lock_acquired() and the branch on it
CheckLockAcquired(p) ==
    /\ pc[p] = "settle"
    /\ sleep[p] = 0
    /\ \E o \in StoreOutcomes :
       \E got \in {get_object(fetch_key(store), o)} :
       \E content \in {fetch_key_returns(fetch_key(store), got)} :
         /\ outcome' = [outcome EXCEPT ![p] = got]
         /\ IF fetch_key_raises(got) \/ check_lock_acquired_raises(content, p)
            THEN /\ Raise(p)
                 /\ UNCHANGED <<seen, held, sleep>>
            ELSE /\ seen' = [seen EXCEPT ![p] = Owner(content)]
                 /\ IF check_lock_acquired(content, p)
                    THEN /\ pc' = [pc EXCEPT ![p] = "idle"]
                         /\ result' = [result EXCEPT ![p] = "true"]
                         /\ held' = [held EXCEPT ![p] = TRUE]
                         /\ UNCHANGED sleep
                    ELSE /\ AfterFailure(p)
                         /\ UNCHANGED held
    /\ UNCHANGED <<store, action, wait, elapsed, reads, puts, touched, aged,
                   slowWrite, lastDelete>>
    /\ UNCHANGED <<gateVars, faults, regVars>>

\* acquire: time.sleep(poll_interval) is over, back to the top of the loop
PollSleep(p) ==
    /\ pc[p] = "poll"
    /\ sleep[p] = 0
    /\ pc' = [pc EXCEPT ![p] = "read"]
    /\ UNCHANGED <<store, action, wait, result, elapsed, sleep, held, seen,
                   reads, puts, touched, aged, slowWrite, lastDelete, outcome>>
    /\ UNCHANGED <<gateVars, faults, regVars>>

StartRelease(p) ==
    /\ pc[p] = "idle"
    /\ pc' = [pc EXCEPT ![p] = "rel_check"]
    /\ action' = [action EXCEPT ![p] = "release"]
    /\ result' = [result EXCEPT ![p] = "none"]
    /\ held' = [held EXCEPT ![p] = FALSE]
    /\ wait' = [wait EXCEPT ![p] = FALSE]
    /\ reads' = [reads EXCEPT ![p] = 0]
    /\ puts' = [puts EXCEPT ![p] = 0]
    /\ seen' = [seen EXCEPT ![p] = None]
    /\ touched' = [touched EXCEPT ![p] = FALSE]
    /\ outcome' = [outcome EXCEPT ![p] = "none"]
    /\ UNCHANGED <<store, elapsed, sleep, aged, slowWrite, lastDelete>>
    /\ UNCHANGED <<gateVars, faults, regVars>>

\* release deleting the key without looking at its owner
ReleaseCheck_unchecked(p) ==
    /\ pc[p] = "rel_check"
    /\ seen' = [seen EXCEPT ![p] = Owner(fetch_key(store))]
    /\ pc' = [pc EXCEPT ![p] = "rel_delete"]
    /\ UNCHANGED <<store, action, wait, result, elapsed, sleep, held, reads, puts,
                   touched, aged, slowWrite, lastDelete, outcome>>
    /\ UNCHANGED <<gateVars, faults, regVars>>

\* release: self._check_lock_acquired() and the branch on it
ReleaseCheck(p) ==
    /\ pc[p] = "rel_check"
    /\ \E o \in StoreOutcomes :
       \E got \in {get_object(fetch_key(store), o)} :
       \E content \in {fetch_key_returns(fetch_key(store), got)} :
         /\ outcome' = [outcome EXCEPT ![p] = got]
         /\ IF fetch_key_raises(got) \/ check_lock_acquired_raises(content, p)
            THEN /\ Raise(p)
                 /\ UNCHANGED seen
            ELSE /\ seen' = [seen EXCEPT ![p] = Owner(content)]
                 /\ IF check_lock_acquired(content, p)
                    THEN /\ pc' = [pc EXCEPT ![p] = "rel_delete"]
                         /\ UNCHANGED result
                    ELSE /\ pc' = [pc EXCEPT ![p] = "idle"]
                         /\ result' = [result EXCEPT ![p] = "false"]
    /\ UNCHANGED <<store, action, wait, elapsed, sleep, held, reads, puts,
                   touched, aged, slowWrite, lastDelete>>
    /\ UNCHANGED <<gateVars, faults, regVars>>

\* release: self.bucket.delete_key(self.lock_file); return True
ReleaseDelete(p) ==
    /\ pc[p] = "rel_delete"
    /\ \E o \in StoreOutcomes :
         /\ outcome' = [outcome EXCEPT ![p] = o]
         /\ IF o = "error"
            THEN /\ Raise(p)
                 /\ UNCHANGED <<store, lastDelete, touched>>
            ELSE /\ store' = delete_key(store)
                 /\ lastDelete' = <<[by |-> p, owner |-> Owner(store)]>>
                 /\ touched' = TouchOthers(p)
                 /\ pc' = [pc EXCEPT ![p] = "idle"]
                 /\ result' = [result EXCEPT ![p] = "true"]
    /\ UNCHANGED <<action, wait, elapsed, sleep, held, seen, reads, puts,
                   aged, slowWrite>>
    /\ UNCHANGED <<gateVars, faults, regVars>>

----------------------------------------------------------------------------
(* Time *)

AgeCap == DeadlockTimeout + 1

Older(content) ==
    IF content = <<>>
    THEN content
    ELSE IF content[1].age < 0
    THEN content
    ELSE <<[content[1] EXCEPT !.age = IF @ < AgeCap THEN @ + 1 ELSE @]>>

\* one second passes
Tick ==
    /\ store' = Older(store)
    /\ aged' = (aged \/ (store' # <<>> /\ store'[1].age > DeadlockTimeout))
    /\ elapsed' = [p \in Procs |->
                     IF pc[p] = "put" /\ elapsed[p] < SettleWindow
                     THEN elapsed[p] + 1 ELSE elapsed[p]]
    /\ sleep' = [p \in Procs |-> IF sleep[p] > 0 THEN sleep[p] - 1 ELSE 0]
    /\ UNCHANGED <<pc, action, wait, result, held, seen, reads, puts, touched,
                   slowWrite, lastDelete, outcome>>
    /\ UNCHANGED <<gateVars, faults, regVars>>

\* wait_for_slot is not running
GateOff ==
    /\ gate = "off"
    /\ run_number = 0
    /\ max_concurrency = 0
    /\ in_progress = <<>>
    /\ present = FALSE
    /\ slept = 0
    /\ polled = <<>>

\* main has not read the details of its run
NoRun == [event |-> "none", status |-> "none"]

\* workflow-approve is not running
ApproveOff ==
    /\ approve = "off"
    /\ approval_required = TRUE
    /\ approvers = {}
    /\ on_comment = <<>>
    /\ reactions = <<>>
    /\ decision = <<>>

\* no run has been submitted
RegOff ==
    /\ status = [r \in Runs |-> "none"]
    /\ head_branch = [r \in Runs |-> "A"]
    /\ rpc = [r \in Runs |-> "off"]
    /\ to_cancel = [r \in Runs |-> <<>>]
    /\ listing = [r \in Runs |-> {}]
    /\ posted = [r \in Runs |-> {}]
    /\ response = [r \in Runs |-> 0]
    /\ cancel = [r \in Runs |-> TRUE]
    /\ event = [r \in Runs |-> "pull_request"]
    /\ current_run = [r \in Runs |-> NoRun]
    /\ ApproveOff

----------------------------------------------------------------------------
(* The lock: any number of acquire and release calls by every process *)

\* no process is in a call and there is no lease
LockIdle ==
    /\ store = <<>>
    /\ pc = [p \in Procs |-> "idle"]
    /\ action = [p \in Procs |-> "none"]
    /\ wait = [p \in Procs |-> FALSE]
    /\ result = [p \in Procs |-> "none"]
    /\ elapsed = [p \in Procs |-> 0]
    /\ sleep = [p \in Procs |-> 0]
    /\ held = [p \in Procs |-> FALSE]
    /\ seen = [p \in Procs |-> None]
    /\ reads = [p \in Procs |-> 0]
    /\ puts = [p \in Procs |-> 0]
    /\ touched = [p \in Procs |-> FALSE]
    /\ aged = FALSE
    /\ slowWrite = FALSE
    /\ lastDelete = <<>>
    /\ outcome = [p \in Procs |-> "none"]

Init == LockIdle /\ GateOff /\ RegOff /\ faults = FALSE

Next ==
    \/ \E p \in Procs : StartAcquire(p)
    \/ \E p \in Procs : CanAcquireLock(p)
    \/ \E p \in Procs : PutLockContent(p)
    \/ \E p \in Procs : CheckLockAcquired(p)
    \/ \E p \in Procs : PollSleep(p)
    \/ \E p \in Procs : StartRelease(p)
    \/ \E p \in Procs : ReleaseCheck(p)
    \/ \E p \in Procs : ReleaseDelete(p)
    \/ Tick

Spec == Init /\ [][Next]_vars

----------------------------------------------------------------------------
(* The lock over a key that holds something else than a lease *)

\* non-empty content that is not a lease with owner and timestamp: content
\* json.loads or lock["process_id"] fails on, and the lease of a process
\* with no timestamp in it
MalformedContents ==
    {<<[process_id |-> None, age |-> -1]>>}
        \cup {<<[process_id |-> o, age |-> -1]>> : o \in Procs}

Malformed(content) ==
    content # <<>> /\ (content[1].process_id = None \/ content[1].age < 0)

MalformedInit ==
    /\ store \in MalformedContents
    /\ pc = [p \in Procs |-> "idle"]
    /\ action = [p \in Procs |-> "none"]
    /\ wait = [p \in Procs |-> FALSE]
    /\ result = [p \in Procs |-> "none"]
    /\ elapsed = [p \in Procs |-> 0]
    /\ sleep = [p \in Procs |-> 0]
    /\ held = [p \in Procs |-> FALSE]
    /\ seen = [p \in Procs |-> None]
    /\ reads = [p \in Procs |-> 0]
    /\ puts = [p \in Procs |-> 0]
    /\ touched = [p \in Procs |-> FALSE]
    /\ aged = FALSE
    /\ slowWrite = FALSE
    /\ lastDelete = <<>>
    /\ outcome = [p \in Procs |-> "none"]
    /\ GateOff
    /\ RegOff
    /\ faults = FALSE

MalformedSpec == MalformedInit /\ [][Next]_vars

----------------------------------------------------------------------------
(* The lock over a store whose calls may fail *)

FailInit == LockIdle /\ GateOff /\ RegOff /\ faults = TRUE

FailSpec == FailInit /\ [][Next]_vars

----------------------------------------------------------------------------
(* Acquire calls in flight, with no further call started *)

AcquireStep(p) ==
    \/ CanAcquireLock(p)
    \/ PutLockContent(p)
    \/ CheckLockAcquired(p)
    \/ PollSleep(p)

AcquireNext ==
    \/ \E p \in Procs : AcquireStep(p)
    \/ Tick

\* every process calls acquire at the same time on a lock nobody holds
RaceInit ==
    /\ store = <<>>
    /\ pc = [p \in Procs |-> "read"]
    /\ action = [p \in Procs |-> "acquire"]
    /\ wait \in [Procs -> BOOLEAN]
    /\ result = [p \in Procs |-> "none"]
    /\ elapsed = [p \in Procs |-> 0]
    /\ sleep = [p \in Procs |-> 0]
    /\ held = [p \in Procs |-> FALSE]
    /\ seen = [p \in Procs |-> None]
    /\ reads = [p \in Procs |-> 0]
    /\ puts = [p \in Procs |-> 0]
    /\ touched = [p \in Procs |-> FALSE]
    /\ aged = FALSE
    /\ slowWrite = FALSE
    /\ lastDelete = <<>>
    /\ outcome = [p \in Procs |-> "none"]
    /\ GateOff
    /\ RegOff
    /\ faults = FALSE

RaceSpec == RaceInit /\ [][AcquireNext]_vars

\* one process holds a lease of any age and never acts again (it crashed or
\* leaked the lock); the other process runs acquire with wait=true
CrashInit ==
    \E o \in Procs : \E a \in 0..AgeCap :
        /\ store = <<[process_id |-> o, age |-> a]>>
        /\ pc = [p \in Procs |-> IF p = o THEN "idle" ELSE "read"]
        /\ action = [p \in Procs |-> "acquire"]
        /\ wait = [p \in Procs |-> p # o]
        /\ result = [p \in Procs |-> IF p = o THEN "true" ELSE "none"]
        /\ elapsed = [p \in Procs |-> 0]
        /\ sleep = [p \in Procs |-> 0]
        /\ held = [p \in Procs |-> p = o]
        /\ seen = [p \in Procs |-> IF p = o THEN o ELSE None]
        /\ reads = [p \in Procs |-> IF p = o THEN 1 ELSE 0]
        /\ puts = [p \in Procs |-> IF p = o THEN 1 ELSE 0]
        /\ touched = [p \in Procs |-> FALSE]
        /\ aged = (a > DeadlockTimeout)
        /\ slowWrite = FALSE
        /\ lastDelete = <<>>
        /\ outcome = [p \in Procs |-> "none"]
        /\ GateOff
        /\ RegOff
        /\ faults = FALSE

\* time advances, and a process that can take its next step takes it
CrashSpec ==
    /\ CrashInit
    /\ [][AcquireNext]_vars
    /\ WF_vars(Tick)
    /\ \A p \in Procs : WF_vars(AcquireStep(p))

----------------------------------------------------------------------------
(* A release by the holder while the other process waits in acquire *)

ReleaseStep(p) ==
    \/ ReleaseCheck(p)
    \/ ReleaseDelete(p)

HandoffNext ==
    \/ \E p \in Procs : AcquireStep(p)
    \/ \E p \in Procs : ReleaseStep(p)
    \/ Tick

\* one process holds a lease of any age and has called release; the other
\* process is in acquire with wait=true
HandoffInit ==
    \E o \in Procs : \E a \in 0..AgeCap :
        /\ store = <<[process_id |-> o, age |-> a]>>
        /\ pc = [p \in Procs |-> IF p = o THEN "rel_check" ELSE "read"]
        /\ action = [p \in Procs |-> IF p = o THEN "release" ELSE "acquire"]
        /\ wait = [p \in Procs |-> p # o]
        /\ result = [p \in Procs |-> "none"]
        /\ elapsed = [p \in Procs |-> 0]
        /\ sleep = [p \in Procs |-> 0]
        /\ held = [p \in Procs |-> FALSE]
        /\ seen = [p \in Procs |-> None]
        /\ reads = [p \in Procs |-> 0]
        /\ puts = [p \in Procs |-> 0]
        /\ touched = [p \in Procs |-> FALSE]
        /\ aged = (a > DeadlockTimeout)
        /\ slowWrite = FALSE
        /\ lastDelete = <<>>
        /\ outcome = [p \in Procs |-> "none"]
        /\ GateOff
        /\ RegOff
        /\ faults = FALSE

\* time advances, and a process that can take its next step takes it
HandoffSpec ==
    /\ HandoffInit
    /\ [][HandoffNext]_vars
    /\ WF_vars(Tick)
    /\ \A p \in Procs : WF_vars(AcquireStep(p))
    /\ \A p \in Procs : WF_vars(ReleaseStep(p))

----------------------------------------------------------------------------
(* The admission gate: wait_for_slot *)

\* the run numbers the registry may list, and the largest --max-concurrency tried
MaxRunNumber == 7
MaxConcurrencyArg == 3
RunNumbers == 1..MaxRunNumber

\* the sleeps of wait_for_slot, in tenths of a second: time.sleep(60), and
\* 3600 / 500 seconds for each waiting run that is not the next in line
ShortSleep == 600
PerWaitingRun == 72

SetMax(S) == CHOOSE x \in S : \A y \in S : y <= x
SetMin(S) == CHOOSE x \in S : \A y \in S : x <= y

\* the run numbers workflow_runs yields for the in-progress runs S, page after
\* page, in the order the registry lists them (newest first, or oldest first)
RECURSIVE workflow_runs(_, _)
workflow_runs(S, newestFirst) ==
    IF S = {}
    THEN <<>>
    ELSE LET x == IF newestFirst THEN SetMax(S) ELSE SetMin(S)
         IN  <<x>> \o workflow_runs(S \ {x}, newestFirst)

\* the insertion of a sort from high to low
RECURSIVE insert_descending(_, _)
insert_descending(x, s) ==
    IF s = <<>> THEN <<x>>
    ELSE IF x >= Head(s) THEN <<x>> \o s
    ELSE <<Head(s)>> \o insert_descending(x, Tail(s))

RECURSIVE insert(_, _)
insert(x, s) ==
    IF s = <<>> THEN <<x>>
    ELSE IF x <= Head(s) THEN <<x>> \o s
    ELSE <<Head(s)>> \o insert(x, Tail(s))

\* sorted(...): ascending
RECURSIVE sorted(_)
sorted(s) == IF s = <<>> THEN <<>> ELSE insert(Head(s), sorted(Tail(s)))

\* a search that answers the length of s, not ValueError, when x is not in s
RECURSIVE index_or_len(_, _)
index_or_len(s, x) ==
    IF s = <<>> THEN 0
    ELSE IF Head(s) = x THEN 0
    ELSE index_or_len(Tail(s), x) + 1

\* a search that counts the places from the end of s
RECURSIVE index_from_end(_, _)
index_from_end(s, x) ==
    IF s = <<>> THEN -1
    ELSE IF Head(s) = x THEN Len(s) - 1
    ELSE index_from_end(Tail(s), x)

\* list.index: the 0-based place of the first x in s; -1 stands for ValueError
RECURSIVE index(_, _)
index(s, x) ==
    IF s = <<>> THEN -1
    ELSE IF Head(s) = x THEN 0
    ELSE LET i == index(Tail(s), x) IN IF i = -1 THEN -1 ELSE i + 1

\* the admission test keeping the last slot free
can_run_but_last(current_idx, max_conc) == current_idx < max_conc - 1

\* the admission test off by one
can_run_inclusive(current_idx, max_conc) == current_idx <= max_conc

\* if current_idx < max_concurrency: break
can_run(current_idx, max_conc) == current_idx < max_conc

Max2(a, b) == IF a >= b THEN a ELSE b

\* the sleep without its lower limit of a minute
wait_time_no_floor(current_idx, max_conc, length) ==
    IF current_idx = max_conc
    THEN ShortSleep
    ELSE (length - max_conc - 1) * PerWaitingRun

\* a sleep in proportion to the run's own distance from the front of the queue
wait_time_by_distance(current_idx, max_conc, length) ==
    IF current_idx = max_conc
    THEN ShortSleep
    ELSE Max2((current_idx - max_conc) * PerWaitingRun, ShortSleep)

\* the time.sleep of a run that has to wait, in tenths of a second
wait_time(current_idx, max_conc, length) ==
    IF current_idx = max_conc
    THEN ShortSleep
    ELSE LET waiting_not_first == length - max_conc - 1
         IN  Max2(waiting_not_first * PerWaitingRun, ShortSleep)

\* one pass of wait_for_slot's loop over the in-progress runs S
Poll ==
    /\ gate = "poll"
    /\ \E S \in SUBSET RunNumbers : \E newestFirst \in BOOLEAN :
       \E listed \in {sorted(workflow_runs(S, newestFirst))} :
       \E current_idx \in {index(listed, run_number)} :
         /\ in_progress' = listed
         /\ present' = (current_idx # -1)
         /\ IF current_idx = -1
            THEN gate' = "sleep" /\ slept' = ShortSleep
            ELSE IF can_run(current_idx, max_concurrency)
            THEN gate' = "admitted" /\ slept' = slept
            ELSE /\ gate' = "sleep"
                 /\ slept' = wait_time(current_idx, max_concurrency, Len(listed))
    /\ UNCHANGED <<run_number, max_concurrency, polled>>
    /\ UNCHANGED <<lockVars, faults, regVars>>

\* a wait_for_slot that returns after its sleep
SleepOver_returns ==
    /\ gate = "sleep"
    /\ gate' = "admitted"
    /\ UNCHANGED <<run_number, max_concurrency, in_progress, present, slept,
                   polled>>
    /\ UNCHANGED <<lockVars, faults, regVars>>

\* the sleep is over: back to the top of the loop
SleepOver ==
    /\ gate = "sleep"
    /\ gate' = "poll"
    /\ UNCHANGED <<run_number, max_concurrency, in_progress, present, slept,
                   polled>>
    /\ UNCHANGED <<lockVars, faults, regVars>>

\* main calls wait_for_slot(session, current_run, args.max_concurrency)
GateInit ==
    /\ LockIdle
    /\ RegOff
    /\ faults = FALSE
    /\ gate = "poll"
    /\ run_number \in RunNumbers
    /\ max_concurrency \in 0..MaxConcurrencyArg
    /\ in_progress = <<>>
    /\ present = FALSE
    /\ slept = 0
    /\ polled = <<>>

GateNext == Poll \/ SleepOver

GateSpec == GateInit /\ [][GateNext]_vars

----------------------------------------------------------------------------
(* wait_for_slot as a function of the snapshot: passes of the loop, each    *)
(* with a current run and a snapshot of its own                             *)

\* the run numbers of the snapshots of any shape, and the length of the
\* longest queue of runs
MaxPassRun == 5
MaxQueue == 14

Elems(s) == {s[i] : i \in 1..Len(s)}

\* what one pass of the loop does for the listing s: break ("admitted") or
\* sleep, and for how long it sleeps
pass(s, number, max_conc) ==
    LET listed == sorted(s)
        current_idx == index(listed, number)
    IN  IF current_idx = -1
        THEN [gate |-> "sleep", slept |-> ShortSleep]
        ELSE IF can_run(current_idx, max_conc)
        THEN [gate |-> "admitted", slept |-> 0]
        ELSE [gate |-> "sleep",
              slept |-> wait_time(current_idx, max_conc, Len(listed))]

\* a pass of the loop of run number over the in-progress runs S; a second
\* pass is one of another run over the same runs, or one of the same run
\* over other runs
Pass(S, newestFirst, number) ==
    /\ polled # <<>> =>
         \/ Elems(polled[1].in_progress) = S
         \/ polled[1].run_number = number
    /\ \E s \in {workflow_runs(S, newestFirst)} :
       \E did \in {pass(s, number, max_concurrency)} :
         polled' = Append(polled, [run_number |-> number,
                                   in_progress |-> sorted(s),
                                   gate |-> did.gate,
                                   slept |-> did.slept])
    /\ UNCHANGED <<gate, run_number, max_concurrency, in_progress, present, slept>>
    /\ UNCHANGED <<lockVars, faults, regVars>>

\* a pass over any set of runs
PassAny ==
    /\ Len(polled) < 2
    /\ \E S \in SUBSET (1..MaxPassRun) : \E newestFirst \in BOOLEAN :
       \E number \in 1..MaxPassRun : Pass(S, newestFirst, number)

\* a pass over a queue of runs 1..n
PassQueue ==
    /\ Len(polled) < 2
    /\ \E n \in 1..MaxQueue : \E newestFirst \in BOOLEAN :
       \E number \in 1..MaxQueue : Pass(1..n, newestFirst, number)

PassInit ==
    /\ LockIdle
    /\ RegOff
    /\ faults = FALSE
    /\ gate = "off"
    /\ run_number = 0
    /\ max_concurrency \in 0..MaxConcurrencyArg
    /\ in_progress = <<>>
    /\ present = FALSE
    /\ slept = 0
    /\ polled = <<>>

PassNext == PassAny \/ PassQueue

PassSpec == PassInit /\ [][PassNext]_vars

----------------------------------------------------------------------------
(* The registry of workflow runs, and the script every run executes: main, *)
(* cancel_existing_runs and wait_for_slot                                  *)

\* a raise_for_status that never raises
raise_for_status_never(status_code) == FALSE

\* response.raise_for_status(): raises for a 4xx or a 5xx status code
raise_for_status(status_code) == status_code >= 400 /\ status_code < 600

\* the status codes a GET of the registry may answer with
GetCodes == IF faults THEN {200, 500} ELSE {200}

\* the status codes POST .../runs/{id}/cancel may answer with: 202 for a run
\* that is in progress, 409 for a run that is already stopped
PostCodes(run) ==
    {IF status[run] = "in_progress" THEN 202 ELSE 409}
        \cup (IF faults THEN {500} ELSE {})

\* the runs the registry lists for status = "in_progress"
InProgress == {r \in Runs : status[r] = "in_progress"}

\* the listing without the branch filter
InProgressOn_any_branch(branch) == InProgress

\* ... and for status = "in_progress", branch = head_branch
InProgressOn(branch) == {r \in InProgress : head_branch[r] = branch}

\* the loop skipping the newer runs only, not the current run
older_or_current(s, current) == SelectSeq(s, LAMBDA run : ~(run > current))

\* cancel_existing_runs: the runs of the listing the loop does not skip
older(s, current) == SelectSeq(s, LAMBDA run : ~(run >= current))

\* cancel_existing_runs accepting a 202 only
cancel_raises_but_202(status_code) ==
    status_code # 202 /\ raise_for_status(status_code)

\* cancel_existing_runs: whether the response to a cancel request raises
cancel_raises(status_code) ==
    status_code \notin {202, 409} /\ raise_for_status(status_code)

\* what becomes of a script when its run is cancelled: it is stopped, unless
\* it has exited already
Killed(at) == IF at \in {"admitted", "failed"} THEN at ELSE "killed"

\* where the script goes once cancel_existing_runs has s left to cancel
AfterCancel(s) == IF s = <<>> THEN "poll" ELSE "cancel"

\* a run is submitted: the registry numbers the runs in submission order
Submit(r) ==
    /\ status[r] = "none"
    /\ \A q \in Runs : q < r => status[q] # "none"
    /\ status' = [status EXCEPT ![r] = "queued"]
    /\ \E b \in Branches : head_branch' = [head_branch EXCEPT ![r] = b]
    /\ UNCHANGED <<rpc, to_cancel, listing, posted, response>>
    /\ UNCHANGED <<cancel, event, current_run, approveVars>>
    /\ UNCHANGED <<lockVars, gateVars, faults>>

\* a runner picks the run up and its script starts
StartRun(r) ==
    /\ status[r] = "queued"
    /\ status' = [status EXCEPT ![r] = "in_progress"]
    /\ rpc' = [rpc EXCEPT ![r] = "main"]
    /\ UNCHANGED <<head_branch, to_cancel, listing, posted, response>>
    /\ UNCHANGED <<cancel, event, current_run, approveVars>>
    /\ UNCHANGED <<lockVars, gateVars, faults>>

\* the statuses GET .../runs/{id} may report for run r: its status, or the
\* one from before a runner picked it up when the registry answers from a
\* view that lags behind
RunStatuses(r) == {status[r]} \cup (IF faults THEN {"queued"} ELSE {})

\* a main that checks the event only
main_raises_event_only(run) == run.event # "pull_request"

\* main: the two checks on the details of the current run
main_raises(run) ==
    run.event # "pull_request" \/ run.status # "in_progress"

\* a main that calls cancel_existing_runs whatever args.cancel is
AfterMain_always_cancels(args_cancel) == "list"

\* main: what follows the checks: cancel_existing_runs if requested, then
\* wait_for_slot
AfterMain(args_cancel) == IF args_cancel THEN "list" ELSE "poll"

\* main: get the details of this run and check them
Main(r) ==
    /\ rpc[r] = "main"
    /\ \E status_code \in GetCodes : \E st \in RunStatuses(r) :
         /\ response' = [response EXCEPT ![r] = status_code]
         /\ IF raise_for_status(status_code)
            THEN /\ rpc' = [rpc EXCEPT ![r] = "failed"]
                 /\ UNCHANGED current_run
            ELSE /\ current_run' = [current_run EXCEPT ![r] =
                                      [event |-> event[r], status |-> st]]
                 /\ rpc' = [rpc EXCEPT ![r] =
                              IF main_raises(current_run'[r]) THEN "failed"
                              ELSE AfterMain(cancel[r])]
    /\ UNCHANGED <<status, head_branch, to_cancel, listing, posted>>
    /\ UNCHANGED <<cancel, event, approveVars>>
    /\ UNCHANGED <<lockVars, gateVars, faults>>

\* cancel_existing_runs: the listing of the in-progress runs of the branch
ListExisting(r) ==
    /\ rpc[r] = "list"
    /\ \E status_code \in GetCodes : \E newestFirst \in BOOLEAN :
       \E s \in {workflow_runs(InProgressOn(head_branch[r]), newestFirst)} :
         /\ response' = [response EXCEPT ![r] = status_code]
         /\ IF raise_for_status(status_code)
            THEN /\ rpc' = [rpc EXCEPT ![r] = "failed"]
                 /\ UNCHANGED <<to_cancel, listing>>
            ELSE /\ listing' = [listing EXCEPT ![r] = {s[i] : i \in 1..Len(s)}]
                 /\ to_cancel' = [to_cancel EXCEPT ![r] = older(s, r)]
                 /\ rpc' = [rpc EXCEPT ![r] = AfterCancel(older(s, r))]
    /\ UNCHANGED <<status, head_branch, posted>>
    /\ UNCHANGED <<cancel, event, current_run, approveVars>>
    /\ UNCHANGED <<lockVars, gateVars, faults>>

\* cancel_existing_runs: the cancel request for the next run of the listing;
\* a run whose cancellation is accepted stops, and its script with it
CancelRun(r) ==
    /\ rpc[r] = "cancel"
    /\ \E run \in {Head(to_cancel[r])} : \E status_code \in PostCodes(run) :
         /\ response' = [response EXCEPT ![r] = status_code]
         /\ posted' = [posted EXCEPT ![r] = @ \cup {run}]
         /\ IF cancel_raises(status_code)
            THEN /\ rpc' = [rpc EXCEPT ![r] = "failed"]
                 /\ UNCHANGED <<status, to_cancel>>
            ELSE IF status_code = 202
            THEN /\ status' = [status EXCEPT ![run] = "cancelled"]
                 /\ rpc' = [rpc EXCEPT ![r] = AfterCancel(Tail(to_cancel[r])),
                                       ![run] = Killed(rpc[run])]
                 /\ to_cancel' = [to_cancel EXCEPT ![r] = Tail(@),
                                                   ![run] = <<>>]
            ELSE /\ rpc' = [rpc EXCEPT ![r] = AfterCancel(Tail(to_cancel[r]))]
                 /\ to_cancel' = [to_cancel EXCEPT ![r] = Tail(@)]
                 /\ UNCHANGED status
    /\ UNCHANGED <<head_branch, listing>>
    /\ UNCHANGED <<cancel, event, current_run, approveVars>>
    /\ UNCHANGED <<lockVars, gateVars, faults>>

\* wait_for_slot: one pass of the loop over the in-progress runs of the workflow
PollRun(r) ==
    /\ rpc[r] = "poll"
    /\ \E status_code \in GetCodes : \E newestFirst \in BOOLEAN :
       \E s \in {sorted(workflow_runs(InProgress, newestFirst))} :
       \E current_idx \in {index(s, r)} :
         /\ response' = [response EXCEPT ![r] = status_code]
         /\ rpc' = [rpc EXCEPT ![r] =
                      IF raise_for_status(status_code) THEN "failed"
                      ELSE IF current_idx = -1 THEN "sleep"
                      ELSE IF can_run(current_idx, max_concurrency) THEN "admitted"
                      ELSE "sleep"]
    /\ UNCHANGED <<status, head_branch, to_cancel, listing, posted>>
    /\ UNCHANGED <<cancel, event, current_run, approveVars>>
    /\ UNCHANGED <<lockVars, gateVars, faults>>

\* wait_for_slot: the sleep is over
WakeRun(r) ==
    /\ rpc[r] = "sleep"
    /\ rpc' = [rpc EXCEPT ![r] = "poll"]
    /\ UNCHANGED <<status, head_branch, to_cancel, listing, posted, response>>
    /\ UNCHANGED <<cancel, event, current_run, approveVars>>
    /\ UNCHANGED <<lockVars, gateVars, faults>>

\* the run ends: its script has exited, normally or with an error, and the
\* rest of the workflow is over
Complete(r) ==
    /\ status[r] = "in_progress"
    /\ rpc[r] \in {"admitted", "failed"}
    /\ status' = [status EXCEPT ![r] = "completed"]
    /\ UNCHANGED <<head_branch, rpc, to_cancel, listing, posted, response>>
    /\ UNCHANGED <<cancel, event, current_run, approveVars>>
    /\ UNCHANGED <<lockVars, gateVars, faults>>

RunStep(r) ==
    \/ Main(r)
    \/ ListExisting(r)
    \/ CancelRun(r)
    \/ PollRun(r)
    \/ WakeRun(r)

RegistryNext ==
    \/ \E r \in Runs : Submit(r)
    \/ \E r \in Runs : StartRun(r)
    \/ \E r \in Runs : RunStep(r)
    \/ \E r \in Runs : Complete(r)

\* no run yet; every run is started with the same --max-concurrency
RegistryInit ==
    /\ LockIdle
    /\ gate = "off"
    /\ run_number = 0
    /\ max_concurrency \in 0..MaxConcurrencyArg
    /\ in_progress = <<>>
    /\ present = FALSE
    /\ slept = 0
    /\ polled = <<>>
    /\ RegOff
    /\ faults \in BOOLEAN

RegistrySpec == RegistryInit /\ [][RegistryNext]_vars

\* the registry answers every request, max_concurrency is at least 1 and
\* small enough for a run to have to wait, every script takes its next step,
\* and a run whose script has exited ends
RegistryLiveInit ==
    /\ LockIdle
    /\ gate = "off"
    /\ run_number = 0
    /\ max_concurrency \in 1..(Cardinality(Runs) - 1)
    /\ in_progress = <<>>
    /\ present = FALSE
    /\ slept = 0
    /\ polled = <<>>
    /\ RegOff
    /\ faults = FALSE

RegistryLiveSpec ==
    /\ RegistryLiveInit
    /\ [][RegistryNext]_vars
    /\ \A r \in Runs : WF_vars(RunStep(r))
    /\ \A r \in Runs : WF_vars(Complete(r))

\* the events a run may be triggered by: pull_request, and one other
Events == {"pull_request", "push"}

\* --max-concurrency when the argument is not given
DefaultMaxConcurrency == 1

\* runs of any event whose scripts are started with or without --no-cancel
MainInit ==
    /\ LockIdle
    /\ gate = "off"
    /\ run_number = 0
    /\ max_concurrency = DefaultMaxConcurrency
    /\ in_progress = <<>>
    /\ present = FALSE
    /\ slept = 0
    /\ polled = <<>>
    /\ status = [r \in Runs |-> "none"]
    /\ head_branch = [r \in Runs |-> "A"]
    /\ rpc = [r \in Runs |-> "off"]
    /\ to_cancel = [r \in Runs |-> <<>>]
    /\ listing = [r \in Runs |-> {}]
    /\ posted = [r \in Runs |-> {}]
    /\ response = [r \in Runs |-> 0]
    /\ cancel \in [Runs -> BOOLEAN]
    /\ event \in [Runs -> Events]
    /\ current_run = [r \in Runs |-> NoRun]
    /\ ApproveOff
    /\ faults \in BOOLEAN

MainSpec == MainInit /\ [][RegistryNext]_vars

----------------------------------------------------------------------------
(* The approval gate: main, wait_for_reactions and is_approved of          *)
(* workflow-approve, and the users reacting to the PR comment              *)

\* the logins of the users that may react, and what they may react with
Users == {"alice", "bob"}
Contents == {"+1", "-1", "heart"}

\* how many reactions the comment gets
MaxReactions == 3

\* wait_for_reactions: the reactions of the response that are a +1 or a -1
\* by an approver
matching(s, logins) ==
    SelectSeq(s, LAMBDA reaction :
        reaction.content \in {"+1", "-1"} /\ reaction.login \in logins)

\* next(login of the reactions with this content, None)
RECURSIVE first_login(_, _)
first_login(s, content) ==
    IF s = <<>> THEN None
    ELSE IF Head(s).content = content THEN Head(s).login
    ELSE first_login(Tail(s), content)

\* a decision that lets a +1 win over a -1
is_approved_plus_first(s) ==
    LET denied_by == first_login(s, "-1")
        approved_by == first_login(s, "+1")
    IN  IF approved_by # None
        THEN [raises |-> FALSE, approved |-> TRUE, by |-> approved_by]
        ELSE IF denied_by # None
        THEN [raises |-> FALSE, approved |-> FALSE, by |-> denied_by]
        ELSE [raises |-> TRUE, approved |-> FALSE, by |-> None]

\* is_approved: (False, denied_by), (True, approved_by) or RuntimeError; a
\* login is a non-empty string, so `if denied_by:` is `denied_by is not None`
is_approved(s) ==
    LET denied_by == first_login(s, "-1")
        approved_by == first_login(s, "+1")
    IN  IF denied_by # None
        THEN [raises |-> FALSE, approved |-> FALSE, by |-> denied_by]
        ELSE IF approved_by # None
        THEN [raises |-> FALSE, approved |-> TRUE, by |-> approved_by]
        ELSE [raises |-> TRUE, approved |-> FALSE, by |-> None]

\* a user reacts to the comment; a user gives a reaction of a kind once
React(u, c) ==
    /\ approve # "off"
    /\ Len(on_comment) < MaxReactions
    /\ \A i \in 1..Len(on_comment) :
          on_comment[i] # [content |-> c, login |-> u]
    /\ on_comment' = Append(on_comment, [content |-> c, login |-> u])
    /\ UNCHANGED <<approve, approval_required, approvers, reactions, decision>>
    /\ UNCHANGED <<status, head_branch, rpc, to_cancel, listing, posted,
                   response, cancel, event, current_run>>
    /\ UNCHANGED <<lockVars, gateVars, faults>>

\* main up to the call of wait_for_reactions: return if no approval is
\* required, else get the PR and create the comment
ApproveMain ==
    /\ approve = "main"
    /\ \E status_code \in GetCodes :
         approve' = IF ~approval_required THEN "skipped"
                    ELSE IF raise_for_status(status_code) THEN "failed"
                    ELSE "poll"
    /\ UNCHANGED <<approval_required, approvers, on_comment, reactions, decision>>
    /\ UNCHANGED <<status, head_branch, rpc, to_cancel, listing, posted,
                   response, cancel, event, current_run>>
    /\ UNCHANGED <<lockVars, gateVars, faults>>

\* wait_for_reactions: one pass of the loop
WaitForReactions ==
    /\ approve = "poll"
    /\ \E status_code \in GetCodes :
       \E found \in {matching(on_comment, approvers)} :
         IF raise_for_status(status_code)
         THEN /\ approve' = "failed"
              /\ UNCHANGED reactions
         ELSE IF found # <<>>
         THEN /\ approve' = "decide"
              /\ reactions' = found
         ELSE /\ approve' = "sleep"
              /\ UNCHANGED reactions
    /\ UNCHANGED <<approval_required, approvers, on_comment, decision>>
    /\ UNCHANGED <<status, head_branch, rpc, to_cancel, listing, posted,
                   response, cancel, event, current_run>>
    /\ UNCHANGED <<lockVars, gateVars, faults>>

\* wait_for_reactions: time.sleep(30) is over
ReactionsSleepOver ==
    /\ approve = "sleep"
    /\ approve' = "poll"
    /\ UNCHANGED <<approval_required, approvers, on_comment, reactions, decision>>
    /\ UNCHANGED <<status, head_branch, rpc, to_cancel, listing, posted,
                   response, cancel, event, current_run>>
    /\ UNCHANGED <<lockVars, gateVars, faults>>

\* main: approved, approver = is_approved(reactions)
IsApproved ==
    /\ approve = "decide"
    /\ \E did \in {is_approved(reactions)} :
         IF did.raises
         THEN /\ approve' = "error"
              /\ UNCHANGED decision
         ELSE /\ approve' = "update"
              /\ decision' = <<[approved |-> did.approved, by |-> did.by]>>
    /\ UNCHANGED <<approval_required, approvers, on_comment, reactions>>
    /\ UNCHANGED <<status, head_branch, rpc, to_cancel, listing, posted,
                   response, cancel, event, current_run>>
    /\ UNCHANGED <<lockVars, gateVars, faults>>

\* main: update the comment, then return or raise SystemExit(1)
UpdatePrComment ==
    /\ approve = "update"
    /\ \E status_code \in GetCodes :
         approve' = IF raise_for_status(status_code) THEN "failed"
                    ELSE IF decision[1].approved THEN "approved"
                    ELSE "denied"
    /\ UNCHANGED <<approval_required, approvers, on_comment, reactions, decision>>
    /\ UNCHANGED <<status, head_branch, rpc, to_cancel, listing, posted,
                   response, cancel, event, current_run>>
    /\ UNCHANGED <<lockVars, gateVars, faults>>

ApproveNext ==
    \/ \E u \in Users : \E c \in Contents : React(u, c)
    \/ ApproveMain
    \/ WaitForReactions
    \/ ReactionsSleepOver
    \/ IsApproved
    \/ UpdatePrComment

\* main is called with any approvers and with or without approval required
ApproveInit ==
    /\ LockIdle
    /\ GateOff
    /\ status = [r \in Runs |-> "none"]
    /\ head_branch = [r \in Runs |-> "A"]
    /\ rpc = [r \in Runs |-> "off"]
    /\ to_cancel = [r \in Runs |-> <<>>]
    /\ listing = [r \in Runs |-> {}]
    /\ posted = [r \in Runs |-> {}]
    /\ response = [r \in Runs |-> 0]
    /\ cancel = [r \in Runs |-> TRUE]
    /\ event = [r \in Runs |-> "pull_request"]
    /\ current_run = [r \in Runs |-> NoRun]
    /\ faults \in BOOLEAN
    /\ approve = "main"
    /\ approval_required \in BOOLEAN
    /\ approvers \in SUBSET Users
    /\ on_comment = <<>>
    /\ reactions = <<>>
    /\ decision = <<>>

ApproveSpec == ApproveInit /\ [][ApproveNext]_vars

----------------------------------------------------------------------------
(* Properties of the lock *)

\* the first read-decide-write-reread cycle of p's acquire succeeded / failed
Won1(p) == reads[p] = 1 /\ result[p] = "true"
Lost1(p) ==
    \/ reads[p] = 2
    \/ reads[p] = 1 /\ pc[p] = "poll"
    \/ reads[p] = 1 /\ pc[p] = "idle" /\ result[p] = "false"

OneWinner ==
    \E w \in Procs :
        /\ Won1(w)
        /\ \A l \in Procs \ {w} : Lost1(l) /\ seen[l] = w

\* C1 as claimed: of two concurrent acquire calls on an empty lock exactly one
\* succeeds in its first cycle, and the loser finds the winner as lease owner
\* when it reads the lease (no lease having aged past the timeout meanwhile).
C1_ExactlyOneWins ==
    (~aged /\ \A p \in Procs : Won1(p) \/ Lost1(p)) => OneWinner

\* C1 as amended: of two concurrent acquire calls on an empty lock exactly one
\* succeeds in its first cycle, and the loser finds the winner as lease owner
\* when it reads the lease, provided each racer writes its lease less than the
\* settle window after the read that found the lock acquirable and no lease
\* ages past deadlockTimeout meanwhile.
C1_ExactlyOneWinsTimely ==
    (~aged /\ ~slowWrite /\ \A p \in Procs : Won1(p) \/ Lost1(p)) => OneWinner

\* C1: both racers found the lock empty and wrote; one won, and the other lost
\* at its re-read, where it found the winner
C1_Witness ==
    /\ ~aged /\ ~slowWrite
    /\ \A p \in Procs : puts[p] = 1 /\ reads[p] = 1 /\ pc[p] \in {"idle", "poll"}
    /\ OneWinner

Holders == {p \in Procs : held[p]}

\* C2 as claimed: at most one process is a holder as long as no lease has aged
\* past deadlockTimeout.
C2_MutualExclusion == ~aged => Cardinality(Holders) <= 1

\* C2 as amended: at most one process is a holder as long as no lease has aged
\* past deadlockTimeout and every lease write so far was made less than the
\* settle window after the read that decided it.
C2_MutualExclusionTimely == (~aged /\ ~slowWrite) => Cardinality(Holders) <= 1

\* C2: one process holds the lock and the other has written its lease in the
\* settle window and lost
C2_Witness ==
    /\ ~aged /\ ~slowWrite
    /\ \E p \in Procs : \E q \in Procs \ {p} :
         /\ held[p] /\ Owner(store) = p
         /\ action[q] = "acquire" /\ pc[q] = "idle" /\ result[q] = "false"
         /\ puts[q] = 1

\* a step in which p's release reads the lease and branches
ReleaseReadStep(p) == pc[p] = "rel_check" /\ pc'[p] # "rel_check"
\* a step in which p's acquire reads the lease and decides
DecideStep(p) == pc[p] = "read" /\ pc'[p] # "read"
\* a step in which p's acquire writes its lease
WriteStep(p) == pc[p] = "put" /\ pc'[p] # "put"
\* a step in which p's acquire re-reads the lease after the settle window
RereadStep(p) == pc[p] = "settle" /\ pc'[p] # "settle"
\* a step in which p's acquire attempt fails: not acquirable, or lost at the re-read
FailStep(p) ==
    \/ DecideStep(p) /\ pc'[p] # "put"
    \/ RereadStep(p) /\ Owner(store) # p

\* The decision and the write of a re-acquire: the owner of the lease always
\* finds it acquirable, whatever its age, and writes a lease of its own with
\* a fresh timestamp.
ReacquireWrites(p) ==
    /\ (DecideStep(p) /\ Owner(store) = p) => pc'[p] = "put"
    /\ WriteStep(p) => store' = <<[process_id |-> p, age |-> 0]>>

TakeoverDecision(p) ==
    (DecideStep(p) /\ Owner(store) \notin {None, p})
        => (pc'[p] = "put" <=> store[1].age > DeadlockTimeout)

C5_NonOwnerRelease ==
    [][\A p \in Procs :
        (ReleaseReadStep(p) /\ Owner(store) # p)
            => /\ store' = store
               /\ lastDelete' = lastDelete
               /\ pc'[p] = "idle"
               /\ result'[p] = "false"]_vars

\* C5: a release has failed on a lease owned by the other process, still there
C5_Witness ==
    \E p \in Procs :
        /\ action[p] = "release" /\ pc[p] = "idle" /\ result[p] = "false"
        /\ seen[p] \notin {None, p} /\ Owner(store) = seen[p]

\* C6: the delete issued by release(P) never removes a lease whose owner at
\* the moment of the delete is a process other than P.
C6_DeleteOnlyOwn ==
    lastDelete = <<>> \/ lastDelete[1].owner \in {None, lastDelete[1].by}

\* C7: with wait=false acquire makes one attempt: a not-acquirable decision or
\* a loss at the re-read returns false at once, without sleeping pollInterval;
\* there is no second read-decide cycle and at most one lease write.
C7_SingleAttempt ==
    [][\A p \in Procs :
        /\ (action[p] = "acquire" /\ ~wait[p] /\ FailStep(p))
              => (pc'[p] = "idle" /\ result'[p] = "false" /\ sleep'[p] = sleep[p])
        /\ (action'[p] = "acquire" /\ ~wait'[p])
              => (reads'[p] <= 1 /\ puts'[p] <= 1 /\ pc'[p] # "poll")]_vars

\* C7: an acquire with wait=false has written its lease, lost it at the
\* re-read and returned false
C7_Witness ==
    \E p \in Procs :
        /\ action[p] = "acquire" /\ ~wait[p] /\ pc[p] = "idle"
        /\ result[p] = "false" /\ puts[p] = 1 /\ reads[p] = 1

\* C8: with wait=true acquire never returns false: every not-acquirable
\* decision and every loss at the re-read is followed by a sleep of
\* pollInterval and a retry from the lease read; it returns only true, and
\* only at a re-read after the settle window that finds the caller as owner.
C8_WaitRetries ==
    [][\A p \in Procs :
        (action[p] = "acquire" /\ wait[p]) =>
            /\ result'[p] # "false"
            /\ FailStep(p) => (pc'[p] = "poll" /\ sleep'[p] = PollInterval)
            /\ (pc[p] = "poll" /\ pc'[p] # "poll")
                  => (sleep[p] = 0 /\ pc'[p] = "read")
            /\ (pc[p] # "idle" /\ pc'[p] = "idle")
                  => /\ result'[p] = "true"
                     /\ RereadStep(p) /\ sleep[p] = 0 /\ Owner(store) = p]_vars

\* C8: an acquire with wait=true is sleeping after its second failed attempt
\* or more, one of them a lost write
C8_Witness ==
    \E p \in Procs :
        /\ action[p] = "acquire" /\ wait[p] /\ pc[p] = "poll"
        /\ reads[p] = 2 /\ puts[p] >= 1 /\ sleep[p] = PollInterval

\* C9: when the lease owner never releases and never re-acquires, the other
\* process's acquire with wait=true eventually returns true.
C9_CrashedOwnerTakenOver ==
    \A p \in Procs : (wait[p] /\ pc[p] # "idle") ~> (result[p] = "true")

\* C9: the waiting process first found the lease not acquirable, and later
\* took it over and returned true
C9_Witness ==
    \E p \in Procs :
        /\ wait[p] /\ pc[p] = "idle" /\ result[p] = "true"
        /\ reads[p] = 2 /\ aged /\ Owner(store) = p

\* C19: while the key holds malformed content, an acquire or a release that
\* reads it raises, and nothing writes or deletes the key
C19_MalformedIsFatal ==
    [][/\ \A p \in Procs :
            (/\ Malformed(store)
             /\ pc[p] \in {"read", "rel_check"}
             /\ pc'[p] # pc[p]) =>
                (pc'[p] = "idle" /\ result'[p] = "raised")
       /\ Malformed(store) => store' = store]_vars

\* C20: a store call of acquire or release that fails with anything but
\* NoSuchKey ends the call with an exception, whatever wait is; acquire
\* goes to its poll sleep only under wait, after a read that succeeded
C20_StoreFailureFatal ==
    [][\A p \in Procs :
         /\ (pc[p] # "idle" /\ outcome'[p] = "error") =>
               (pc'[p] = "idle" /\ result'[p] = "raised")
         /\ (pc[p] # "poll" /\ pc'[p] = "poll") =>
               /\ wait[p]
               /\ pc[p] \in {"read", "settle"}
               /\ outcome'[p] \in {"ok", "NoSuchKey"}]_vars

\* B's acquire with wait=true raised on a store failure in its second cycle,
\* and A's release raised on a store failure
C20_Witness ==
    /\ action["B"] = "acquire" /\ wait["B"]
    /\ reads["B"] = 2
    /\ result["B"] = "raised" /\ outcome["B"] = "error"
    /\ action["A"] = "release"
    /\ result["A"] = "raised" /\ outcome["A"] = "error"

\* C23: an acquire iteration that reads a lease of another process no older
\* than DeadlockTimeout neither puts nor deletes the key, goes to the poll
\* sleep or returns without the settle wait and the re-read, and has the
\* lease's owner as the holder to report
C23_NotAcquirableNoWrite ==
    [][\A p \in Procs :
         (/\ DecideStep(p)
          /\ Owner(store) \notin {None, p}
          /\ store[1].age <= DeadlockTimeout) =>
             /\ store' = store
             /\ lastDelete' = lastDelete
             /\ puts'[p] = puts[p]
             /\ pc'[p] \in {"poll", "idle"}
             /\ pc'[p] = "idle" => result'[p] = "false"
             /\ can_acquire_lock(fetch_key(store), p).holder = Owner(store)
             /\ seen'[p] = Owner(store)]_vars

\* B has found A's lease not acquirable at its first read and sleeps, having
\* written nothing
C23_Witness ==
    /\ pc["B"] = "poll"
    /\ reads["B"] = 1
    /\ puts["B"] = 0
    /\ seen["B"] = "A"
    /\ Owner(store) = "A"
    /\ lastDelete = <<>>

\* C28: an acquire attempt whose re-read after the settle window finds no
\* lease has failed: acquire does not return True on it; it returns False
\* under wait=false and goes to its poll sleep under wait=true
C28_AbsentAtRereadIsLoss ==
    [][\A p \in Procs :
         (RereadStep(p) /\ fetch_key(store) = <<>>) =>
             /\ result'[p] # "true"
             /\ held'[p] = held[p]
             /\ IF wait[p]
                THEN pc'[p] = "poll" /\ result'[p] = "none"
                ELSE pc'[p] = "idle" /\ result'[p] = "false"]_vars

\* A's release checked the owner before B wrote its lease and deleted the key
\* after; B found no lease at its re-read and sleeps before it tries again
C28_Witness ==
    /\ lastDelete = <<[by |-> "A", owner |-> "B"]>>
    /\ store = <<>>
    /\ pc["B"] = "poll"
    /\ puts["B"] = 1
    /\ seen["B"] = None
    /\ result["A"] = "true"

\* release of p has returned True
Released(p) == action[p] = "release" /\ result[p] = "true"

\* C26: once the release of the holder has returned True, the process
\* waiting in acquire with wait=true comes to return True; a lease read it
\* makes after the delete finds no lease and goes on to write its own
C26_Handoff ==
    /\ \A p, q \in Procs :
          (p # q /\ Released(p)) ~> (result[q] = "true")
    /\ [][\A p, q \in Procs :
            (/\ p # q
             /\ Released(p)
             /\ pc[q] = "read"
             /\ pc'[q] # "read") =>
                (seen'[q] = None /\ pc'[q] = "put")]_vars

\* A released the lease it held while B slept between two polls; B found
\* no lease at its next poll and has acquired the lock
C26_Witness ==
    /\ Released("A")
    /\ lastDelete = <<[by |-> "A", owner |-> "A"]>>
    /\ reads["B"] = 2
    /\ puts["B"] = 1
    /\ result["B"] = "true"
    /\ held["B"]
    /\ Owner(store) = "B"

----------------------------------------------------------------------------
(* Properties of the admission gate *)

\* the 0-based place of n in the ascending order of the run numbers S
Rank(n, S) == Cardinality({m \in S : m < n})

\* wait_for_slot has polled and decided, and the poll held the current run
Decided == gate \in {"sleep", "admitted"} /\ run_number \in Elems(in_progress)

\* C10: on a poll that contains the current run's number, the run is admitted
\* if and only if the 0-based index of its number among the ascending
\* in-progress run numbers is below maxConcurrency; {3,4,5,7} with run 5 and
\* maxConcurrency 2 is not admitted, {4,5,7} with run 5 is.
C10_RankAdmission ==
    Decided =>
        /\ gate = "admitted" <=> Rank(run_number, Elems(in_progress)) < max_concurrency
        /\ (Elems(in_progress) = {3, 4, 5, 7} /\ run_number = 5 /\ max_concurrency = 2)
              => gate = "sleep"
        /\ (Elems(in_progress) = {4, 5, 7} /\ run_number = 5 /\ max_concurrency = 2)
              => gate = "admitted"

\* C10: run 5 polled {3,4,5,7} with maxConcurrency 2 and has to wait
C10_Witness ==
    /\ gate = "sleep" /\ present
    /\ in_progress = <<3, 4, 5, 7>> /\ run_number = 5 /\ max_concurrency = 2

----------------------------------------------------------------------------
(* Properties of the registry and of the scripts of its runs *)

\* the runs wait_for_slot has admitted and that are still in progress
Admitted == {r \in Runs : rpc[r] = "admitted" /\ status[r] = "in_progress"}

\* C11: the number of runs admitted by wait_for_slot and still in progress
\* never exceeds max_concurrency
C11_BoundedConcurrency == Cardinality(Admitted) <= max_concurrency

\* cancel_existing_runs of run r has returned
Superseded(r) == rpc[r] \in {"poll", "sleep", "admitted"}

\* the runs cancel_existing_runs of r has to cancel, given its listing
ToSupersede(r) == {q \in listing[r] : q < r}

\* C12: the listing of cancel_existing_runs holds the runs in progress on the
\* current run's branch; a cancel request only ever goes to a run of that
\* listing with a lower number on the same branch, and when
\* cancel_existing_runs returns every such run has been sent one
C12_CancelsExactlyOlder ==
    [][\A r \in Runs :
         /\ listing'[r] # listing[r] =>
               listing'[r] = {q \in Runs : /\ status[q] = "in_progress"
                                           /\ head_branch[q] = head_branch[r]}
         /\ posted'[r] \subseteq
               {q \in ToSupersede(r)' : head_branch[q] = head_branch[r]}
         /\ Superseded(r)' => posted'[r] = ToSupersede(r)']_vars

\* runs 1 and 2 on branch A and run 3 on branch B were in progress; run 2 has
\* cancelled run 1 and nothing else
C12_Witness ==
    /\ head_branch = <<"A", "A", "B">>
    /\ Superseded(2)
    /\ listing[2] = {1, 2}
    /\ posted[2] = {1}
    /\ status = <<"cancelled", "in_progress", "in_progress">>

\* the runs that have sent run q a cancel request
Requesters(q) == {r \in Runs : q \in posted[r]}

\* the runs submitted for a branch
SubmittedOn(branch) ==
    {r \in Runs : status[r] # "none" /\ head_branch[r] = branch}

\* C13: the highest-numbered run of a branch has never been sent a cancel
\* request, and every lower-numbered run that was in progress on the branch
\* when a higher-numbered run ran cancel_existing_runs has been sent one
C13_LatestOnBranchWins ==
    /\ \A b \in Branches :
         SubmittedOn(b) # {} => Requesters(SetMax(SubmittedOn(b))) = {}
    /\ \A r \in Runs : Superseded(r) =>
         \A q \in listing[r] : q < r => Requesters(q) # {}

\* three runs on one branch: run 2 cancelled run 1, run 3 cancelled run 2,
\* and nobody has asked for run 3 to be cancelled
C13_Witness ==
    /\ head_branch = <<"A", "A", "A">>
    /\ Superseded(3)
    /\ Requesters(1) = {2}
    /\ Requesters(2) = {3}
    /\ Requesters(3) = {}
    /\ status = <<"cancelled", "cancelled", "in_progress">>

\* a step of cancel_existing_runs of run r: its cancel request and the
\* handling of the response
OwnCancel(r) ==
    /\ rpc[r] = "cancel"
    /\ rpc'[r] # "killed"
    /\ <<rpc[r], to_cancel[r]>>' # <<rpc[r], to_cancel[r]>>

\* C14: a cancel request answered 409 raises nothing: the loop goes on with
\* the rest of the listing at once, and after the last run of the listing
\* the script is in wait_for_slot
C14_AlreadyStoppedIsSuccess ==
    [][\A r \in Runs : (OwnCancel(r) /\ response'[r] = 409) =>
         /\ to_cancel'[r] = Tail(to_cancel[r])
         /\ rpc'[r] = IF to_cancel'[r] = <<>> THEN "poll" ELSE "cancel"
         /\ status' = status]_vars

\* run 3 has asked for runs 1 and 2 to be cancelled, the last answer was a
\* 409, and run 3 is in wait_for_slot
C14_Witness ==
    /\ posted[3] = {1, 2}
    /\ response[3] = 409
    /\ rpc[3] = "poll"

\* C15: a listing or a cancel request answered with an error other than 409
\* makes the script fail at that call, with the rest of its listing not
\* cancelled; a script that has failed stays failed: it repeats no request,
\* sends no further cancel request and is never admitted
C15_RegistryFailureFatal ==
    [][\A r \in Runs :
         /\ (rpc[r] # "failed" /\ response'[r] >= 400 /\ response'[r] # 409) =>
               /\ rpc'[r] = "failed"
               /\ to_cancel'[r] = to_cancel[r]
         /\ rpc[r] = "failed" =>
               /\ rpc'[r] = "failed"
               /\ posted'[r] = posted[r]
               /\ response'[r] = response[r]]_vars

\* run 3 failed at the first of two cancel requests, and run 2 at a listing
\* of wait_for_slot
C15_Witness ==
    /\ rpc[3] = "failed"
    /\ response[3] = 500
    /\ Len(to_cancel[3]) = 2
    /\ posted[3] = {Head(to_cancel[3])}
    /\ rpc[2] = "failed"
    /\ listing[2] # {}
    /\ to_cancel[2] = <<>>

----------------------------------------------------------------------------
(* Properties of wait_for_slot's loop *)

\* C16: a poll whose snapshot lacks the current run's number neither admits
\* the run nor fails: wait_for_slot sleeps 60 seconds, whatever the snapshot
\* and max_concurrency are, and polls again
C16_MissingNumberRetries ==
    [][/\ (gate = "poll" /\ run_number \notin Elems(in_progress')) =>
            (gate' = "sleep" /\ slept' = 600)
       /\ gate = "sleep" => gate' = "poll"]_vars

\* the snapshot holds every run number but the current run's, and
\* wait_for_slot sleeps
C16_Witness ==
    /\ gate = "sleep"
    /\ ~present
    /\ Len(in_progress) = MaxRunNumber - 1
    /\ slept = 600

\* C18: wait_for_slot is polling, sleeping or has returned, and it has
\* returned only if its last poll listed the current run's number with fewer
\* than max_concurrency lower numbers: however many polls and sleeps there
\* have been, it neither gives up nor lets the run through
C18_NoTimeout ==
    /\ gate \in {"poll", "sleep", "admitted"}
    /\ gate = "admitted" =>
         /\ run_number \in Elems(in_progress)
         /\ Rank(run_number, Elems(in_progress)) < max_concurrency

\* the run was admitted after it had to sleep
C18_Witness ==
    /\ gate = "admitted"
    /\ slept > 0
    /\ Rank(run_number, Elems(in_progress)) = max_concurrency - 1

----------------------------------------------------------------------------
(* Properties of the registry under fairness *)

\* run r is in wait_for_slot
Waiting(r) == rpc[r] \in {"poll", "sleep"}

\* C17: a run waiting in wait_for_slot is eventually admitted, unless it
\* stops being in progress
C17_EventualAdmission ==
    \A r \in Runs :
        Waiting(r) ~> (rpc[r] = "admitted" \/ status[r] # "in_progress")

\* run 3 was admitted after the two runs before it had been admitted and
\* had completed
C17_Witness ==
    /\ rpc = <<"admitted", "admitted", "admitted">>
    /\ status = <<"completed", "completed", "in_progress">>
    /\ max_concurrency = 1
    /\ posted[3] = {}

----------------------------------------------------------------------------
(* Properties of one pass of wait_for_slot's loop *)

\* the passes made
Passes == {polled[i] : i \in 1..Len(polled)}

\* the 0-based index of the pass's run in the pass's snapshot
Idx(e) == Rank(e.run_number, Elems(e.in_progress))

\* the pass found its run in the snapshot and made it wait
WaitingPass(e) == e.run_number \in Elems(e.in_progress) /\ e.gate = "sleep"

\* two passes of two runs over one snapshot, and both runs have to wait
TwoWaiting ==
    /\ Len(polled) = 2
    /\ polled[1].in_progress = polled[2].in_progress
    /\ WaitingPass(polled[1])
    /\ WaitingPass(polled[2])

\* C21 as stated: of two waiting runs polled against the same snapshot, the
\* one further back sleeps longer
C21_FurtherBackSleepsLonger ==
    (TwoWaiting /\ Idx(polled[1]) < Idx(polled[2])) =>
        polled[1].slept < polled[2].slept

\* C21: the run next in line sleeps 60 s; a run further back sleeps 7.2 s for
\* every run of the snapshot beyond the admitted ones and the next in line,
\* and at least 60 s, wherever it is in the queue; so of two waiting runs
\* polled against the same snapshot the one further back never sleeps less
C21_BackoffByQueueLength ==
    /\ \A e \in Passes : WaitingPass(e) =>
         e.slept = IF Idx(e) = max_concurrency
                   THEN 600
                   ELSE Max2(72 * (Len(e.in_progress) - max_concurrency - 1), 600)
    /\ (TwoWaiting /\ Idx(polled[1]) < Idx(polled[2])) =>
         /\ polled[1].slept <= polled[2].slept
         /\ Idx(polled[1]) > max_concurrency =>
               polled[1].slept = polled[2].slept

\* the next in line sleeps 60 s and a run further back, polled against the
\* same snapshot, sleeps longer
C21_Witness ==
    /\ TwoWaiting
    /\ Idx(polled[1]) = max_concurrency
    /\ polled[1].slept = 600
    /\ Idx(polled[2]) > max_concurrency + 1
    /\ polled[2].slept > 600

\* the runs of the pass's snapshot behind the admitted ones and the next in line
Behind(e) == Len(e.in_progress) - max_concurrency - 1

\* C22: with n >= 1 runs behind the admitted ones and the next in line, each
\* of the n sleeps max(7.2 n, 60) seconds between polls, so the n of them
\* poll at most 500 times an hour; no pass sleeps less than 60 seconds, so
\* the next in line polls at most 60 times an hour (times in tenths of a
\* second: an hour is 36000)
C22_PollingBudget ==
    \A e \in Passes : e.gate = "sleep" =>
        /\ e.slept >= 600
        /\ (WaitingPass(e) /\ Idx(e) > max_concurrency) =>
              /\ Behind(e) >= 1
              /\ e.slept = Max2(72 * Behind(e), 600)
              /\ Behind(e) * 36000 <= 500 * e.slept
        /\ (WaitingPass(e) /\ Idx(e) = max_concurrency) =>
              36000 <= 60 * e.slept

\* ten runs are behind the next in line, and one of them sleeps 72 seconds
C22_Witness ==
    /\ polled # <<>>
    /\ WaitingPass(polled[1])
    /\ Idx(polled[1]) > max_concurrency
    /\ Behind(polled[1]) = 10
    /\ polled[1].slept = 720

\* the pass found its run in the snapshot
PresentPass(e) == e.run_number \in Elems(e.in_progress)

\* C25: of two runs of one snapshot, when the pass of the higher-numbered
\* one breaks out of the loop, so does the pass of the lower-numbered one
C25_AdmissionOrdered ==
    \A e, f \in Passes :
        (/\ e.in_progress = f.in_progress
         /\ PresentPass(e) /\ PresentPass(f)
         /\ f.run_number < e.run_number
         /\ e.gate = "admitted") => f.gate = "admitted"

\* of two runs of one snapshot the lower-numbered one is admitted and the
\* higher-numbered one has to wait
C25_Witness ==
    /\ Len(polled) = 2
    /\ polled[1].in_progress = polled[2].in_progress
    /\ PresentPass(polled[1]) /\ PresentPass(polled[2])
    /\ polled[1].run_number < polled[2].run_number
    /\ polled[1].gate = "admitted"
    /\ polled[2].gate = "sleep"

\* the runs of the snapshot of a pass that are older than the run of the pass
Lower(e) == {n \in Elems(e.in_progress) : n < e.run_number}

\* C27: two passes of one run over snapshots that both list it and agree on
\* the runs older than it decide the same: both break out or both sleep
C27_HigherRunsIrrelevant ==
    \A e, f \in Passes :
        (/\ e.run_number = f.run_number
         /\ PresentPass(e) /\ PresentPass(f)
         /\ Lower(e) = Lower(f)) => e.gate = f.gate

\* two passes of one run over snapshots that differ in the newer runs only:
\* both sleep, for different lengths
C27_Witness ==
    /\ Len(polled) = 2
    /\ polled[1].run_number = polled[2].run_number
    /\ PresentPass(polled[1]) /\ PresentPass(polled[2])
    /\ Lower(polled[1]) = Lower(polled[2])
    /\ polled[1].in_progress # polled[2].in_progress
    /\ polled[1].gate = "sleep" /\ polled[2].gate = "sleep"
    /\ polled[1].slept # polled[2].slept

----------------------------------------------------------------------------
(* Properties of main *)

\* the script of run r is in wait_for_slot, or has returned from it
InWaitForSlot(r) == rpc[r] \in {"poll", "sleep", "admitted"}

\* C24: a script sends a cancel request only from cancel_existing_runs and
\* only when started without --no-cancel; once it is in wait_for_slot it
\* never is in cancel_existing_runs again and sends no cancel request; a
\* script started with --no-cancel goes from main's checks straight to the
\* first poll of wait_for_slot and never sends a cancel request
C24_SupersedeThenAdmit ==
    [][\A r \in Runs :
         /\ posted'[r] # posted[r] => (rpc[r] = "cancel" /\ cancel[r])
         /\ InWaitForSlot(r) =>
               /\ rpc'[r] \notin {"main", "list", "cancel"}
               /\ posted'[r] = posted[r]
         /\ ~cancel[r] =>
               /\ rpc'[r] \notin {"list", "cancel"}
               /\ posted'[r] = {}
               /\ (rpc[r] = "main" /\ rpc'[r] \notin {"main", "failed", "killed"})
                     => rpc'[r] = "poll"]_vars

\* run 2 has cancelled run 1 and is admitted; run 3, on the same branch and
\* started with --no-cancel, is in wait_for_slot and has cancelled nothing
C24_Witness ==
    /\ cancel[2] /\ ~cancel[3]
    /\ head_branch[2] = head_branch[3]
    /\ posted[2] = {1}
    /\ rpc[2] = "admitted"
    /\ status[2] = "in_progress"
    /\ rpc[3] = "sleep"
    /\ posted[3] = {}

\* main of run r has passed its checks: the script is in
\* cancel_existing_runs or in wait_for_slot, or has been
Acting(r) ==
    \/ rpc[r] \in {"list", "cancel", "poll", "sleep", "admitted"}
    \/ listing[r] # {}
    \/ posted[r] # {}

\* C29: a script lists, cancels or polls only after main has read its run
\* as a pull_request run that is in_progress; main of a run of another event
\* or read as not in_progress raises at once
C29_IneligibleRunRejected ==
    [][\A r \in Runs :
         /\ Acting(r)' =>
               current_run'[r] = [event |-> "pull_request", status |-> "in_progress"]
         /\ (/\ rpc[r] = "main"
             /\ current_run'[r] # NoRun
             /\ current_run'[r] #
                   [event |-> "pull_request", status |-> "in_progress"]) =>
               /\ rpc'[r] \in {"failed", "killed"}
               /\ posted'[r] = {} /\ listing'[r] = {}]_vars

\* main of run 1, a push run, and main of run 2, read as queued, have
\* raised; run 3 is past main's checks
C29_Witness ==
    /\ current_run[1] = [event |-> "push", status |-> "in_progress"]
    /\ rpc[1] = "failed"
    /\ current_run[2] = [event |-> "pull_request", status |-> "queued"]
    /\ rpc[2] = "failed"
    /\ response[1] = 200 /\ response[2] = 200
    /\ Acting(3)

----------------------------------------------------------------------------
(* Properties of the approval gate *)

\* the contents of the reactions of s
ContentsOf(s) == {s[i].content : i \in 1..Len(s)}

\* wait_for_reactions has returned
Returned == approve \in {"decide", "update", "approved", "denied", "error"}

\* C30: wait_for_reactions goes on polling exactly while the comment has no
\* +1 or -1 by an approver, and what it returns is all the reactions of the
\* response that are one, and nothing else; is_approved answers False when
\* one of them is a -1 and True when none is a -1, with the login of the
\* first such reaction; main exits as denied or approved accordingly, and
\* is_approved never raises
C30_ApprovalDecision ==
    [][/\ (approve = "poll" /\ approve' = "sleep") =>
              \A i \in 1..Len(on_comment) :
                  ~(/\ on_comment[i].content \in {"+1", "-1"}
                    /\ on_comment[i].login \in approvers)
       /\ (approve = "poll" /\ approve' = "decide") =>
              \E i \in 1..Len(on_comment) :
                  /\ on_comment[i].content \in {"+1", "-1"}
                  /\ on_comment[i].login \in approvers
       /\ Returned' =>
              /\ reactions' # <<>>
              /\ \A i \in 1..Len(reactions') :
                    /\ reactions'[i].content \in {"+1", "-1"}
                    /\ reactions'[i].login \in approvers
                    /\ \E j \in 1..Len(on_comment) : on_comment[j] = reactions'[i]
       /\ approve' # "error"
       /\ decision' # <<>> =>
              /\ decision'[1].approved = ("-1" \notin ContentsOf(reactions'))
              /\ \E i \in 1..Len(reactions') :
                    /\ reactions'[i].login = decision'[1].by
                    /\ reactions'[i].content =
                          IF decision'[1].approved THEN "+1" ELSE "-1"
       /\ approve' = "approved" =>
              (decision' # <<>> /\ "-1" \notin ContentsOf(reactions')
                               /\ "+1" \in ContentsOf(reactions'))
       /\ approve' = "denied" =>
              (decision' # <<>> /\ "-1" \in ContentsOf(reactions'))]_vars

\* two approvers: a +1 by alice came first, then a -1 by bob; the run is
\* denied by bob
C30_Witness ==
    /\ approvers = {"alice", "bob"}
    /\ reactions = <<[content |-> "+1", login |-> "alice"],
                     [content |-> "-1", login |-> "bob"]>>
    /\ decision = <<[approved |-> FALSE, by |-> "bob"]>>
    /\ approve = "denied"

====
